---- MODULE Spec2Model ----
(***************************************************************************)
(* Model of the data-crawling core of nitta's ML synthesis component:      *)
(*   components/data_crawling/node/node_converting.py  (node -> row)       *)
(*   components/data_crawling/data_crawling.py         (crawl drivers)     *)
(*                                                                         *)
(* Two specifications share the module:                                    *)
(*   SpecConvert  draws a node, a sibling collection and an example label  *)
(*                from bounded sets and applies nitta_node_to_df_dict;     *)
(*   Spec         runs crawl_data_from_many_examples over a crawl config,  *)
(*                one crawl_data_from_example call per entry.              *)
(***************************************************************************)
EXTENDS Integers, Sequences, FiniteSets, TLC

VARIABLES
    c_node,         \* SpecConvert: the node handed to nitta_node_to_df_dict
    c_siblings,     \* SpecConvert: the sibling collection, in iteration order
    c_example,      \* SpecConvert: the example label (a string or None)
    c_out,          \* SpecConvert: what the call did (pending / row / raise)
    crawl_config,   \* Spec: the config's keys in insertion order
    fs,             \* Spec: the paths that exist on disk
    pc,             \* Spec: position of crawl_data_from_many_examples
    i,              \* Spec: number of config entries the loop has taken
    summary_stats,  \* Spec: the running summary list
    epc,            \* Spec: position of the current crawl_data_from_example
    results,        \* Spec: the accumulator of the current call
    ret,            \* Spec: how the current call ended
    stop,           \* Spec (history): what stopped the sampling of this call
    appended,       \* Spec (history): rows the sampler appended in this call
    proc,           \* Spec (history): the call of result processing, if any
    log,            \* Spec (history): the events of the whole crawl, in order
    saved           \* Spec (history): the summaries handed to persistence

conv_vars  == <<c_node, c_siblings, c_example, c_out>>
crawl_vars == <<crawl_config, fs, pc, i, summary_stats, epc, results, ret,
                stop, appended, proc, log, saved>>
vars == <<c_node, c_siblings, c_example, c_out, crawl_config, fs, pc, i,
          summary_stats, epc, results, ret, stop, appended, proc, log, saved>>

----------------------------------------------------------------------------
(* Bounds of the model *)

MaxLen == 2         \* longest pNotTransferableInputs sequence
MaxElem == 1        \* largest element of that sequence
MaxSiblings == 2    \* longest sibling collection
MaxConfig == 2      \* most entries of a crawl config
MaxRows == 2        \* most rows the sampler appends for one example

----------------------------------------------------------------------------
(* Python values.  Every value a row or a parameter mapping can hold is a  *)
(* record of one shape, so that values of different Python types compare   *)
(* unequal instead of being incomparable.                                  *)

NoneVal == [kind |-> "none", seq |-> <<>>, str |-> ""]
IntVal(n) == [kind |-> "int", seq |-> <<n>>, str |-> ""]
BoolVal(b) == [kind |-> "bool", seq |-> <<IF b THEN 1 ELSE 0>>, str |-> ""]
StrVal(s) == [kind |-> "str", seq |-> <<>>, str |-> s]
ListVal(s) == [kind |-> "list", seq |-> s, str |-> ""]

EmptyDict == [k \in {} |-> NoneVal]

\* Python's builtin sum over a sequence of integers
RECURSIVE sum(_)
sum(s) == IF s = <<>> THEN 0 ELSE Head(s) + sum(Tail(s))

----------------------------------------------------------------------------
(* node_converting.py *)

_SINGLE_BIND_DECISION_TAG == "SingleBindView"
_GROUP_BIND_DECISION_TAG == "GroupBindView"
_BIND_DECISION_TAGS == {_SINGLE_BIND_DECISION_TAG, _GROUP_BIND_DECISION_TAG}
_DATAFLOW_DECISION_TAGS == {"DataflowDecisionView"}

\* The outcome of a call: exc = "" when it returned.  `parameters` is the
\* node's own parameter payload after the call.
Returned(result, parameters) ==
    [exc |-> "", result |-> result, parameters |-> parameters]
Raised(exc, parameters) ==
    [exc |-> exc, result |-> EmptyDict, parameters |-> parameters]

\* dict.copy(): a new mapping with the same items
copy(d) == [k \in DOMAIN d |-> d[k]]

\* `del result["tag"]` once the key is known to be present (line 36)
del_tag_m(result) == result
del_tag(result) == [k \in DOMAIN result \ {"tag"} |-> result[k]]

\* `result["pNotTransferableInputs"] = sum(result["pNotTransferableInputs"])`
\* once the key is known to hold a sequence (line 34)
reduce_inputs_m(result) ==
    [result EXCEPT !["pNotTransferableInputs"] = IntVal(Len(@.seq))]
reduce_inputs(result) ==
    [result EXCEPT !["pNotTransferableInputs"] = IntVal(sum(@.seq))]

\* node.parameters is [isdict, d]: a mapping d, or some value that is no
\* mapping (a string such as "root", None, ...).
_extract_params_dict(node) ==
    IF node.decision_tag \in _DATAFLOW_DECISION_TAGS \cup _BIND_DECISION_TAGS
    THEN IF ~node.parameters.isdict
         THEN Raised("AssertionError", node.parameters)
         ELSE LET result == copy(node.parameters.d) IN
              IF node.decision_tag \in _DATAFLOW_DECISION_TAGS
              THEN IF "pNotTransferableInputs" \notin DOMAIN result
                   THEN Raised("KeyError", node.parameters)
                   ELSE IF result["pNotTransferableInputs"].kind # "list"
                   THEN Raised("TypeError", node.parameters)
                   ELSE Returned(reduce_inputs(result), node.parameters)
              ELSE IF "tag" \notin DOMAIN result
                   THEN Raised("KeyError", node.parameters)
                   ELSE Returned(del_tag(result), node.parameters)
    ELSE IF node.decision_tag = "RootView"
    THEN Returned(EmptyDict, node.parameters)
    ELSE Returned([pRefactoringType |-> StrVal(node.decision_tag)],
                  node.parameters)

\* The counters before the loop (lines 49-54)
ZeroCounts ==
    [alt_bindings |-> IntVal(0), alt_group_bindings |-> IntVal(0),
     alt_dataflows |-> IntVal(0), alt_refactorings |-> IntVal(0)]

\* result[key] += 1
Incr(result, key) == [result EXCEPT ![key] = IntVal(@.seq[1] + 1)]

\* The bucket a sibling that is counted lands in (lines 59-67)
bucket_of(sibling) ==
    IF sibling.decision_tag = _SINGLE_BIND_DECISION_TAG THEN "alt_bindings"
    ELSE IF sibling.decision_tag = _GROUP_BIND_DECISION_TAG
    THEN "alt_group_bindings"
    ELSE IF sibling.decision_tag \in _DATAFLOW_DECISION_TAGS
    THEN "alt_dataflows"
    ELSE "alt_refactorings"

\* One iteration of the loop over the siblings (lines 56-67)
count_sibling_m(result, node, sibling) == Incr(result, bucket_of(sibling))
count_sibling(result, node, sibling) ==
    IF sibling.sid = node.sid THEN result
    ELSE Incr(result, bucket_of(sibling))

RECURSIVE count_siblings(_, _, _)
count_siblings(result, node, siblings) ==
    IF siblings = <<>> THEN result
    ELSE count_siblings(count_sibling(result, node, Head(siblings)), node,
                        Tail(siblings))

_extract_alternative_siblings_dict(node, siblings) ==
    count_siblings(ZeroCounts, node, siblings)

\* The keyword arguments nitta_node_to_df_dict passes by name (lines 20-24)
base_fields(node, example) ==
    [example |-> example, sid |-> StrVal(node.sid),
     tag |-> StrVal(node.decision_tag), old_score |-> IntVal(node.score),
     is_terminal |-> BoolVal(node.is_terminal)]

\* dict(k=..., **a, **b): a key given twice is a TypeError, otherwise the
\* union of the items.  The sibling counts are computed before the
\* parameters, and neither can be merged if the other raised.
nitta_node_to_df_dict(node, siblings, example) ==
    LET base == base_fields(node, example)
        alts == _extract_alternative_siblings_dict(node, siblings)
        params == _extract_params_dict(node)
    IN  IF params.exc # "" THEN params
        ELSE IF (DOMAIN base \cup DOMAIN alts) \cap DOMAIN params.result # {}
        THEN Raised("TypeError", params.parameters)
        ELSE Returned(base @@ alts @@ params.result, params.parameters)

----------------------------------------------------------------------------
(* Inputs of SpecConvert *)

Sids == {"-", "-0"}
Tags == {"RootView", "SingleBindView", "GroupBindView",
         "DataflowDecisionView", "BreakLoopView"}

Elems == 0 .. MaxElem
SeqsUpTo(S, n) == UNION {[1 .. k -> S] : k \in 0 .. n}

\* The values each parameter key is drawn from.  "tag" and "sid" are keys
\* that nitta_node_to_df_dict also passes by name.
KeyValues(k) ==
    CASE k = "tag" -> {StrVal("BindMetrics")}
      [] k = "pNotTransferableInputs" ->
             {ListVal(s) : s \in SeqsUpTo(Elems, MaxLen)} \cup {IntVal(1)}
      [] k = "pCritical" -> {BoolVal(FALSE), BoolVal(TRUE)}
      [] k = "sid" -> {StrVal("-9")}

ParamKeys == {"tag", "pNotTransferableInputs", "pCritical", "sid"}

\* Every mapping from some of the keys to values of theirs: each key is
\* either left out or given one of its values.
Absent == [kind |-> "absent", seq |-> <<>>, str |-> ""]
Choice(k) == KeyValues(k) \cup {Absent}
Dicts ==
    {[k \in {x \in ParamKeys : c[x] # Absent} |-> c[k]] :
        c \in [tag : Choice("tag"),
               pNotTransferableInputs : Choice("pNotTransferableInputs"),
               pCritical : Choice("pCritical"), sid : Choice("sid")]}

NotADict == [isdict |-> FALSE, d |-> EmptyDict]
Mapping(d) == [isdict |-> TRUE, d |-> d]

AllParams == {Mapping(d) : d \in Dicts} \cup {NotADict}
\* A few payloads, among them one that each decision kind accepts
PlainParams ==
    {NotADict,
     Mapping([tag |-> StrVal("BindMetrics"), pCritical |-> BoolVal(TRUE)]),
     Mapping([pNotTransferableInputs |-> ListVal(<<1>>)])}

NodesWith(P, T) ==
    [sid : Sids, decision_tag : Tags, score : {1010}, is_terminal : T,
     parameters : P]

\* A sibling is a node; only its sid and decision_tag are read.
SiblingNodes == [sid : Sids, decision_tag : Tags]

Examples == {NoneVal, StrVal("test")}

NotCalled == [state |-> "pending", exc |-> "", result |-> EmptyDict,
              parameters |-> NotADict]

\* The root fixture of tests/test_node_json_conversion.py: its sid, kind,
\* score and terminality are the ones the test's expected dict shows; its
\* payload is no mapping.
test_root ==
    [sid |-> "-", decision_tag |-> "RootView", score |-> 1010,
     is_terminal |-> FALSE, parameters |-> NotADict]

\* The children of the root fixture: two children, one of them a
\* SingleBindView that is not the root itself.
test_root_children ==
    {s \in [1 .. 2 -> SiblingNodes] :
        \E k \in 1 .. 2 :
            /\ s[k].decision_tag = _SINGLE_BIND_DECISION_TAG
            /\ s[k].sid # test_root.sid
            /\ \A j \in (1 .. 2) \ {k} :
                   s[j].decision_tag # _SINGLE_BIND_DECISION_TAG}

\* The dict the test asserts the row to equal (test lines 15-22)
test_expected_row ==
    [alt_bindings |-> IntVal(1), alt_dataflows |-> IntVal(0),
     alt_refactorings |-> IntVal(0), example |-> StrVal("test"),
     is_terminal |-> BoolVal(FALSE), old_score |-> IntVal(1010),
     sid |-> StrVal("-"), tag |-> StrVal("RootView")]

----------------------------------------------------------------------------
(* The crawl: values *)

\* A path is <<directory, file name>>; Path.name is the file name.
Paths == {<<"examples", "sum.lua">>, <<"examples", "pid.lua">>,
          <<"examples/generated", "sum.lua">>}
name(path) == path[2]

NoStop == [kind |-> "none", rows |-> <<>>]
NoProc == [called |-> FALSE, rows |-> <<>>]
NoRet == [kind |-> "pending", rows |-> <<>>, n_rows |-> 0, exc |-> ""]

CrawlIdle ==
    /\ crawl_config = <<>>
    /\ fs = {}
    /\ pc = "idle"
    /\ i = 0
    /\ summary_stats = <<>>
    /\ epc = "idle"
    /\ results = <<>>
    /\ ret = NoRet
    /\ stop = NoStop
    /\ appended = <<>>
    /\ proc = NoProc
    /\ log = <<>>
    /\ saved = <<>>

----------------------------------------------------------------------------
(* SpecConvert: one call of nitta_node_to_df_dict on drawn inputs *)

InitConvert ==
    /\ \/ /\ c_node \in NodesWith(AllParams, BOOLEAN)
          /\ c_siblings = <<>>
          /\ c_example \in Examples
       \/ /\ c_node \in NodesWith(PlainParams, {FALSE})
          /\ c_siblings \in SeqsUpTo(SiblingNodes, MaxSiblings)
          /\ c_example = StrVal("test")
    /\ c_out = NotCalled
    /\ CrawlIdle

Convert ==
    /\ c_out.state = "pending"
    /\ LET r == nitta_node_to_df_dict(c_node, c_siblings, c_example) IN
       c_out' = [state |-> IF r.exc = "" THEN "row" ELSE "raise",
                 exc |-> r.exc, result |-> r.result,
                 parameters |-> r.parameters]
    /\ UNCHANGED <<c_node, c_siblings, c_example>>
    /\ UNCHANGED crawl_vars

NextConvert == Convert

SpecConvert == InitConvert /\ [][NextConvert]_vars

----------------------------------------------------------------------------
(* Claims about nitta_node_to_df_dict, checked under SpecConvert *)

Converted == c_out.state # "pending"
Row == c_out.result
IsBind == c_node.decision_tag \in {"SingleBindView", "GroupBindView"}
IsDataflow == c_node.decision_tag = "DataflowDecisionView"
IsMapping == c_node.parameters.isdict
Payload == c_node.parameters.d

BaseKeys == {"example", "sid", "tag", "old_score", "is_terminal"}
CountKeys == {"alt_bindings", "alt_group_bindings", "alt_dataflows",
              "alt_refactorings"}

\* The five base fields are the inputs, copied
BaseCopied ==
    /\ Row["example"] = c_example
    /\ Row["sid"] = StrVal(c_node.sid)
    /\ Row["tag"] = StrVal(c_node.decision_tag)
    /\ Row["old_score"] = IntVal(c_node.score)
    /\ Row["is_terminal"] = BoolVal(c_node.is_terminal)

\* Every parameter field but `except` is in the row with its input value
OthersCopied(except) ==
    \A k \in DOMAIN Payload \ {except} :
        k \in DOMAIN Row /\ Row[k] = Payload[k]

\* C6 as claimed: for every SingleBind or GroupBind node (here: with a
\* mapping as parameters and no field named like another row field),
\* extraction succeeds whether or not the parameters hold `tag`, the row's
\* tag is not the payload's, and the other parameter fields are copied.
C6_BindSucceedsWithOrWithoutTag ==
    (Converted /\ IsBind /\ IsMapping /\ "sid" \notin DOMAIN Payload)
        => /\ c_out.state = "row"
           /\ Row["tag"] = StrVal(c_node.decision_tag)
           /\ OthersCopied("tag")

\* C6 as amended: for every SingleBind or GroupBind node whose parameters
\* are a mapping that holds `tag` and no other field named like a base or
\* count field of the row, extraction succeeds, the row's tag is the
\* decision kind (the payload's tag is dropped), the other parameter fields
\* are copied unchanged and nothing else is added; when the mapping holds no
\* `tag`, extraction fails with a KeyError.
C6_BindDropsPresentTag ==
    (Converted /\ IsBind /\ IsMapping)
        => /\ ("tag" \in DOMAIN Payload
                 /\ (DOMAIN Payload \ {"tag"}) \cap (BaseKeys \cup CountKeys) = {})
              => /\ c_out.state = "row"
                 /\ BaseCopied
                 /\ OthersCopied("tag")
                 /\ DOMAIN Row =
                      BaseKeys \cup CountKeys \cup (DOMAIN Payload \ {"tag"})
           /\ "tag" \notin DOMAIN Payload
              => c_out.state = "raise" /\ c_out.exc = "KeyError"

C6_Witness ==
    /\ c_out.state = "row"
    /\ IsBind
    /\ "tag" \in DOMAIN Payload
    /\ "pCritical" \in DOMAIN Row

\* The sum of the first n elements of s, taken from the last one down
RECURSIVE Total(_, _)
Total(s, n) == IF n = 0 THEN 0 ELSE s[n] + Total(s, n - 1)

\* C7: for every Dataflow node whose parameters hold the input sequence,
\* the row's pNotTransferableInputs is the integer sum of the sequence's
\* elements (0 for the empty one), every other parameter field is copied
\* unchanged, and the node's own parameters are as they were; the row is
\* produced whenever no parameter field is named like a base or count field.
C7_DataflowInputsAreSummed ==
    (Converted /\ IsDataflow /\ IsMapping
       /\ "pNotTransferableInputs" \in DOMAIN Payload
       /\ Payload["pNotTransferableInputs"].kind = "list")
        => LET inputs == Payload["pNotTransferableInputs"].seq IN
           /\ c_out.parameters = c_node.parameters
           /\ DOMAIN Payload \cap (BaseKeys \cup CountKeys) = {}
                 => c_out.state = "row"
           /\ c_out.state = "row"
                 => /\ Row["pNotTransferableInputs"]
                         = IntVal(Total(inputs, Len(inputs)))
                    /\ OthersCopied("pNotTransferableInputs")
                    /\ DOMAIN Row = BaseKeys \cup CountKeys \cup DOMAIN Payload

C7_Witness ==
    /\ c_out.state = "row"
    /\ IsDataflow
    /\ Payload["pNotTransferableInputs"].seq = <<0, 1>>
    /\ Row["pNotTransferableInputs"] = IntVal(1)
    /\ "pCritical" \in DOMAIN Row

\* The entries of the collection that are not the node itself, by bucket
Others == {k \in DOMAIN c_siblings : c_siblings[k].sid # c_node.sid}
OthersTagged(T) == {k \in Others : c_siblings[k].decision_tag \in T}
Count(key) == Row[key].seq[1]

\* C8: the four alternative counts sum to the number of entries of the
\* sibling collection whose id differs from the node's; each such entry is
\* counted in exactly one bucket (its own kind's, any other tag being a
\* refactoring) and an entry with the node's id in none.
C8_CountsPartitionOtherSiblings ==
    c_out.state = "row"
        => /\ \A key \in CountKeys : Row[key].kind = "int"
           /\ Count("alt_bindings") + Count("alt_group_bindings")
                + Count("alt_dataflows") + Count("alt_refactorings")
                = Cardinality(Others)
           /\ Count("alt_bindings")
                = Cardinality(OthersTagged({"SingleBindView"}))
           /\ Count("alt_group_bindings")
                = Cardinality(OthersTagged({"GroupBindView"}))
           /\ Count("alt_dataflows")
                = Cardinality(OthersTagged({"DataflowDecisionView"}))
           /\ Count("alt_refactorings")
                = Cardinality(OthersTagged({"RootView", "BreakLoopView"}))

C8_Witness ==
    /\ c_out.state = "row"
    /\ Len(c_siblings) = 2
    /\ c_siblings[1].sid = c_node.sid
    /\ c_siblings[2].sid # c_node.sid
    /\ c_siblings[2].decision_tag = "RootView"
    /\ Count("alt_refactorings") = 1

\* C9 as claimed: the row of the root fixture, with its children as
\* siblings and the label "test", is the dict the test expects.
C9_RootRowEqualsTestExpectation ==
    (Converted /\ c_node = test_root /\ c_siblings \in test_root_children
       /\ c_example = StrVal("test"))
        => c_out.state = "row" /\ Row = test_expected_row

----------------------------------------------------------------------------
(* data_crawling.py *)

\* Python's exception classes: what `except Exception` catches, and what is
\* a BaseException only (asyncio.CancelledError, SystemExit).
ExceptionSubclasses ==
    {"AssertionError", "KeyError", "TypeError", "RuntimeError", "OSError"}
BaseExceptionOnly == {"KeyboardInterrupt", "CancelledError"}

\* `example.exists()` (line 25)
exists_m(example) == TRUE
exists(example) == example \in fs

\* The two except clauses around the sampling (lines 37-40)
caught_m(exc) == exc = "KeyboardInterrupt"
caught(exc) == exc = "KeyboardInterrupt" \/ exc \in ExceptionSubclasses

\* The for loop has run out of config entries (line 84)
loop_exhausted_m(n) == n >= 1 \/ n = Len(crawl_config)
loop_exhausted(n) == n = Len(crawl_config)

\* `if sampling_result is not None: summary_stats.append(...)` (lines 88-89);
\* the stats of a result are spread into the entry.
summary_after_m(summary, example, sampling_result) ==
    Append(summary, [example |-> name(example),
                     n_rows |-> sampling_result.n_rows])
summary_after(summary, example, sampling_result) ==
    IF sampling_result.kind # "None"
    THEN Append(summary, [example |-> name(example),
                          n_rows |-> sampling_result.n_rows])
    ELSE summary

\* What process_and_save_sampling_results returns: the rows and their stats
SamplingResult(rows) ==
    [kind |-> "result", rows |-> rows, n_rows |-> Len(rows), exc |-> ""]

Event(ev, idx, kind, n) ==
    [ev |-> ev, idx |-> idx, path |-> crawl_config[idx], kind |-> kind,
     n |-> n]
SummaryEvent == [ev |-> "summary", idx |-> 0, path |-> <<"", "">>,
                 kind |-> "", n |-> Len(summary_stats)]

\* The nodes the tree provider lets the sampler visit for an example, each
\* with the same siblings: the root, a dataflow decision, and a bind
\* decision whose parameters are no mapping.
CrawlNodes ==
    {test_root,
     [sid |-> "-0", decision_tag |-> "DataflowDecisionView", score |-> 7,
      is_terminal |-> TRUE,
      parameters |-> Mapping([pNotTransferableInputs |-> ListVal(<<1, 2>>)])],
     [sid |-> "-1", decision_tag |-> "SingleBindView", score |-> 3,
      is_terminal |-> FALSE, parameters |-> NotADict]}
CrawlSiblings ==
    <<[sid |-> "-0", decision_tag |-> "DataflowDecisionView"],
      [sid |-> "-1", decision_tag |-> "SingleBindView"]>>

InjectiveSeqs(S, n) ==
    {s \in SeqsUpTo(S, n) : \A j, k \in DOMAIN s : j # k => s[j] # s[k]}

Init ==
    /\ crawl_config \in InjectiveSeqs(Paths, MaxConfig)
    /\ fs \in SUBSET Paths
    /\ pc = "loop"
    /\ i = 0
    /\ summary_stats = <<>>
    /\ epc = "idle"
    /\ results = <<>>
    /\ ret = NoRet
    /\ stop = NoStop
    /\ appended = <<>>
    /\ proc = NoProc
    /\ log = <<>>
    /\ saved = <<>>
    /\ c_node = test_root
    /\ c_siblings = <<>>
    /\ c_example = NoneVal
    /\ c_out = NotCalled

\* crawl_data_from_many_examples takes the next entry and calls
\* crawl_data_from_example, which runs up to its first await: it returns
\* None for a missing source, or creates the accumulator and starts the
\* sampling (lines 84-87, 23-36).
BeginExample ==
    /\ pc = "loop"
    /\ ~loop_exhausted(i)
    /\ i' = i + 1
    /\ pc' = "awaiting"
    /\ results' = <<>>
    /\ stop' = NoStop
    /\ appended' = <<>>
    /\ proc' = NoProc
    /\ LET example == crawl_config[i + 1] IN
       IF ~exists(example)
       THEN /\ epc' = "returned"
            /\ ret' = [kind |-> "None", rows |-> <<>>, n_rows |-> 0,
                       exc |-> ""]
            /\ log' = log \o <<Event("start", i + 1, "", 0),
                               Event("return", i + 1, "None", 0)>>
       ELSE /\ epc' = "sampling"
            /\ ret' = NoRet
            /\ log' = log \o <<Event("start", i + 1, "", 0),
                               Event("sample", i + 1, "", 0)>>
    /\ UNCHANGED <<crawl_config, fs, summary_stats, saved>>
    /\ UNCHANGED conv_vars

\* An exception leaves run_synthesis_tree_sampling (lines 31-40): a caught
\* one is logged and the call goes on to process the rows, any other one
\* leaves crawl_data_from_example.
SamplingStopped(exc) ==
    /\ stop' = [kind |-> exc, rows |-> appended]
    /\ IF caught(exc)
       THEN epc' = "processing" /\ UNCHANGED <<ret, log>>
       ELSE /\ epc' = "raised"
            /\ ret' = [kind |-> "raise", rows |-> <<>>, n_rows |-> 0,
                       exc |-> exc]
            /\ log' = Append(log, Event("return", i, "raise", 0))

\* The sampler visits a node and appends its row to the accumulator it was
\* given; a failure of the conversion leaves the sampler as an exception.
SamplerVisit ==
    /\ epc = "sampling"
    /\ \E node \in CrawlNodes :
         LET r == nitta_node_to_df_dict(node, CrawlSiblings,
                                        StrVal(name(crawl_config[i])))
         IN  \/ /\ r.exc = ""
                /\ Len(results) < MaxRows
                /\ results' = Append(results, r.result)
                /\ appended' = Append(appended, r.result)
                /\ UNCHANGED <<epc, ret, stop, log>>
             \/ /\ r.exc # ""
                /\ SamplingStopped(r.exc)
                /\ UNCHANGED <<results, appended>>
    /\ UNCHANGED <<crawl_config, fs, pc, i, summary_stats, proc, saved>>
    /\ UNCHANGED conv_vars

\* The sampler is interrupted or fails between two visits.
SamplerRaise ==
    /\ epc = "sampling"
    /\ \E exc \in BaseExceptionOnly \cup {"RuntimeError"} :
         SamplingStopped(exc)
    /\ UNCHANGED <<crawl_config, fs, pc, i, summary_stats, results, appended,
                   proc, saved>>
    /\ UNCHANGED conv_vars

\* The sampler returns after its last walk.
SamplerReturn ==
    /\ epc = "sampling"
    /\ epc' = "processing"
    /\ UNCHANGED <<crawl_config, fs, pc, i, summary_stats, results, ret, stop,
                   appended, proc, log, saved>>
    /\ UNCHANGED conv_vars

\* `return process_and_save_sampling_results(example, results, data_dir)`
\* (line 42): the accumulator is handed over; the call returns a
\* SamplingResult for the rows, or fails, and the failure leaves
\* crawl_data_from_example.
ProcessAndSave ==
    /\ epc = "processing"
    /\ proc' = [called |-> TRUE, rows |-> results]
    /\ \/ /\ epc' = "returned"
          /\ ret' = SamplingResult(results)
          /\ log' = log \o <<Event("persist", i, "", Len(results)),
                             Event("return", i, "result", Len(results))>>
       \/ /\ epc' = "raised"
          /\ ret' = [kind |-> "raise", rows |-> <<>>, n_rows |-> 0,
                     exc |-> "OSError"]
          /\ log' = log \o <<Event("persist", i, "", Len(results)),
                             Event("return", i, "raise", 0)>>
    /\ UNCHANGED <<crawl_config, fs, pc, i, summary_stats, results, stop,
                   appended, saved>>
    /\ UNCHANGED conv_vars

\* The await of line 87 ends: a result or None comes back and the summary
\* is extended (lines 88-89), or the call's exception leaves
\* crawl_data_from_many_examples.
Resume ==
    /\ pc = "awaiting"
    /\ epc \in {"returned", "raised"}
    /\ epc' = "idle"
    /\ IF epc = "raised"
       THEN pc' = "raised" /\ UNCHANGED summary_stats
       ELSE /\ pc' = "loop"
            /\ summary_stats' =
                 summary_after(summary_stats, crawl_config[i], ret)
    /\ UNCHANGED <<crawl_config, fs, i, results, ret, stop, appended, proc,
                   log, saved>>
    /\ UNCHANGED conv_vars

\* After the loop the summary is handed to persistence (lines 91-92).
SaveSummary ==
    /\ pc = "loop"
    /\ loop_exhausted(i)
    /\ pc' = "done"
    /\ saved' = Append(saved, summary_stats)
    /\ log' = Append(log, SummaryEvent)
    /\ UNCHANGED <<crawl_config, fs, i, summary_stats, epc, results, ret,
                   stop, appended, proc>>
    /\ UNCHANGED conv_vars

Next ==
    \/ BeginExample
    \/ SamplerVisit
    \/ SamplerRaise
    \/ SamplerReturn
    \/ ProcessAndSave
    \/ Resume
    \/ SaveSummary

Spec == Init /\ [][Next]_vars

----------------------------------------------------------------------------
(* Claims about the crawl, checked under Spec *)

InCall == i >= 1
CurrentExample == crawl_config[i]
StoppedByCaught ==
    stop.kind = "KeyboardInterrupt" \/ stop.kind \in ExceptionSubclasses

\* C1 as claimed: for an existing source, a call of crawl_data_from_example
\* never ends by an exception reaching its caller.
C1_CrawlExampleNeverRaises ==
    (InCall /\ CurrentExample \in fs) => epc # "raised"

C3_FailedExampleNeverAbortsCrawl ==
    pc \in {"done", "raised"}
        => /\ pc = "done"
           /\ i = Len(crawl_config)
           /\ Len(saved) = 1

IsEv(e, ev, idx) == e.ev = ev /\ e.idx = idx

\* C4: a call for a source that does not exist returns None, and neither
\* the sampler nor result processing is invoked for it: its return follows
\* its start with nothing in between.
C4_MissingSourceYieldsNone ==
    /\ (InCall /\ CurrentExample \notin fs)
          => /\ epc \in {"returned", "idle"}
             /\ ret.kind = "None"
             /\ results = <<>> /\ appended = <<>>
             /\ ~proc.called
             /\ stop = NoStop
    /\ \A p \in DOMAIN log :
          (log[p].ev # "summary" /\ log[p].path \notin fs)
             => /\ log[p].ev \in {"start", "return"}
                /\ log[p].ev = "return" => log[p].kind = "None"
                /\ log[p].ev = "start"
                      => /\ p + 1 \in DOMAIN log
                         /\ IsEv(log[p + 1], "return", log[p].idx)

C4_Witness ==
    /\ i = 2
    /\ crawl_config[1] \in fs
    /\ crawl_config[2] \notin fs
    /\ epc = "returned"
    /\ ret.kind = "None"

Exists(path) == path \in fs
Yielded(e) == e.ev = "return" /\ e.kind = "result"
ExpectedSummary(n) ==
    LET paths == SelectSeq(SubSeq(crawl_config, 1, n), Exists)
        rets == SelectSeq(log, Yielded)
    IN  [k \in 1 .. Len(paths) |->
            [example |-> name(paths[k]), n_rows |-> rets[k].n]]

\* C5: the summary holds one entry for each config entry whose crawl
\* yielded a result (the entries whose source exists), in config order,
\* with that result's stats, and none for an entry whose crawl yielded
\* None; what is persisted at the end is that list; a missing source never
\* makes the crawl raise.
C5_SummaryListsYieldedExamples ==
    /\ pc \in {"loop", "done"}
          => /\ Len(SelectSeq(log, Yielded))
                  = Len(SelectSeq(SubSeq(crawl_config, 1, i), Exists))
             /\ summary_stats = ExpectedSummary(i)
    /\ pc = "done" => saved = <<ExpectedSummary(Len(crawl_config))>>
    /\ (InCall /\ CurrentExample \notin fs) => epc # "raised" /\ pc # "raised"

C5_Witness ==
    /\ pc = "done"
    /\ Len(crawl_config) = 2
    /\ crawl_config[1] \notin fs
    /\ crawl_config[2] \in fs
    /\ Len(saved[1]) = 1
    /\ saved[1][1].example = name(crawl_config[2])

Entries == {p \in DOMAIN log : log[p].ev # "summary"}
Summaries == {p \in DOMAIN log : log[p].ev = "summary"}
Has(ev, idx) == \E p \in DOMAIN log : IsEv(log[p], ev, idx)

\* C10: the config entries are crawled one after another in insertion
\* order: every event of entry k comes after every event of the entries
\* before it, and when entry k+1 starts, entry k has returned and, if it was
\* sampled, its rows were handed to persistence; the summary is persisted
\* at most once, as the last step, after every entry has returned, and
\* exactly once in a crawl that completes (with an empty summary too).
C10_SequentialThenOneSummary ==
    /\ \A p, q \in Entries : p < q => log[p].idx <= log[q].idx
    /\ \A p \in Entries :
          /\ log[p].path = crawl_config[log[p].idx]
          /\ log[p].idx <= i
    /\ \A k \in 1 .. i : Has("start", k)
    /\ \A k \in 2 .. i :
          /\ Has("return", k - 1)
          /\ Has("sample", k - 1) => Has("persist", k - 1)
    /\ Cardinality(Summaries) <= 1
    /\ Cardinality(Summaries) = Len(saved)
    /\ \A p \in Summaries :
          /\ p = Len(log)
          /\ i = Len(crawl_config)
          /\ \A k \in 1 .. Len(crawl_config) : Has("return", k)
    /\ pc = "done" <=> Cardinality(Summaries) = 1

C10_Witness ==
    /\ pc = "done"
    /\ Len(crawl_config) = 2
    /\ Has("persist", 1)
    /\ Has("persist", 2)
    /\ Len(saved) = 1
    /\ Len(saved[1]) = 2

====
